---------------------------- MODULE Spec2Model ----------------------------
(***************************************************************************)
(* A model of the Code.org ray tracing engine (src/code.js): the vector    *)
(* algebra, the ray/primitive intersection routines, the closest-hit       *)
(* resolver, the recursive shading evaluator, the scanline render loop and *)
(* the GUI event handlers that start a render or edit the scene.           *)
(*                                                                         *)
(* Numbers.  The program computes in IEEE doubles.  The model keeps every  *)
(* coordinate, colour channel, weight and distance an integer and draws    *)
(* its inputs from sets on which the program's arithmetic is exact: all    *)
(* square roots taken are of perfect squares and all divisions are exact   *)
(* (Sqrt and the divisions below fail loudly otherwise).  The three        *)
(* non-finite doubles the code can produce (NaN, +Infinity, -Infinity) are *)
(* kept as tagged values.  The tolerance zero_tol = 1e-3 is the rational   *)
(* ZeroTolNum / ZeroTolDen.  image.scale is a rational with denominator    *)
(* ScaleDen.                                                               *)
(*                                                                         *)
(* Only({e(x) : x \in {v}}) is e(v) with v computed once: it names an       *)
(* intermediate value the way a var declaration of the program does.       *)
(***************************************************************************)
EXTENDS Integers, Sequences, FiniteSets, TLC

Only(S) == CHOOSE v \in S : TRUE

(***************************************************************************)
(* Doubles: a finite integer, or one of NaN, +Infinity, -Infinity.         *)
(***************************************************************************)
Num(n) == [k |-> "num", v |-> n]
NaN == [k |-> "nan", v |-> 0]
Infinity == [k |-> "inf", v |-> 0]
NegInfinity == [k |-> "ninf", v |-> 0]

IsNum(a) == a.k = "num"

\* JavaScript a < b on doubles (false whenever either side is NaN).
NumLt(a, b) ==
    CASE a.k = "nan" \/ b.k = "nan" -> FALSE
      [] a.k = "ninf" -> b.k # "ninf"
      [] a.k = "inf" -> FALSE
      [] b.k = "inf" -> TRUE
      [] b.k = "ninf" -> FALSE
      [] OTHER -> a.v < b.v

\* JavaScript a != b on doubles (NaN differs from everything, itself included).
NumNeq(a, b) == a.k = "nan" \/ b.k = "nan" \/ a # b

\* Math.min / Math.max: NaN if either argument is NaN.
MathMin(a, b) ==
    IF a.k = "nan" \/ b.k = "nan" THEN NaN
    ELSE IF NumLt(b, a) THEN b ELSE a

MathMax(a, b) ==
    IF a.k = "nan" \/ b.k = "nan" THEN NaN
    ELSE IF NumLt(a, b) THEN b ELSE a

\* JavaScript n / d for integers n, d whose quotient, when finite, is an integer.
JsDiv(n, d) ==
    Only({IF y = 0
          THEN (IF x = 0 THEN NaN ELSE IF x > 0 THEN Infinity ELSE NegInfinity)
          ELSE Num(CHOOSE r \in -(IF x < 0 THEN -x ELSE x)..(IF x < 0 THEN -x ELSE x) :
                       r * y = x)
          : x \in {n}, y \in {d}})

\* Math.floor(n / d) for integers n and d >= 0.
JsFloorDiv(n, d) ==
    IF d = 0
    THEN (IF n = 0 THEN NaN ELSE IF n > 0 THEN Infinity ELSE NegInfinity)
    ELSE Num(n \div d)

\* Math.sqrt of a perfect square.
Sqrt(n) == Only({(CHOOSE r \in 0..x : r * r = x) : x \in {n}})

Abs(n) == IF n < 0 THEN -n ELSE n

\* scene.image.zero_tol = 1e-3 as ZeroTolNum / ZeroTolDen.
ZeroTolNum == 1
ZeroTolDen == 1000

\* t >= zero_tol, t > zero_tol, t > -zero_tol for a double t; |d| < zero_tol
\* for an integer d.
GeZeroTol(t) ==
    t.k = "inf" \/ (t.k = "num" /\ t.v * ZeroTolDen >= ZeroTolNum)
GtZeroTol(t) ==
    t.k = "inf" \/ (t.k = "num" /\ t.v * ZeroTolDen > ZeroTolNum)
GtNegZeroTol(t) ==
    t.k = "inf" \/ (t.k = "num" /\ t.v * ZeroTolDen > -ZeroTolNum)
AbsLtZeroTol(d) == Abs(d) * ZeroTolDen < ZeroTolNum

(***************************************************************************)
(* Vector3.                                                                *)
(***************************************************************************)
Vector3(x, y, z) == [x |-> x, y |-> y, z |-> z]

\* Vector3.prototype.add, as the pair (value returned, receiver after the call).
Vector3AddInPlace(this, vector) ==
    LET s == Vector3(this.x + vector.x, this.y + vector.y, this.z + vector.z)
    IN [ret |-> s, this |-> s]

Vector3Add(this, vector) ==
    [ret |-> Vector3(this.x + vector.x, this.y + vector.y, this.z + vector.z),
     this |-> this]

add(this, vector) == Vector3Add(this, vector).ret

times(this, scalar) == Vector3(scalar * this.x, scalar * this.y, scalar * this.z)

subtract(this, vector) == add(this, times(vector, -1))

inner(this, vector) == this.x * vector.x + this.y * vector.y + this.z * vector.z

norm(this) == Sqrt(inner(this, this))

\* divide(scalar) = times(1 / scalar); every quotient taken is exact.
divide(this, scalar) ==
    Vector3(JsDiv(this.x, scalar).v, JsDiv(this.y, scalar).v, JsDiv(this.z, scalar).v)

normalize(this) ==
    Only({IF norm(v) # 0 THEN divide(v, norm(v)) ELSE v : v \in {this}})

\* randBetween(min, max) = Math.random() * (max - min) + min lies in
\* [min, max); the integers of that interval.
randBetween(min, max) == min..(max - 1)

\* One draw of the loop of Vector3.random, and the loop's test norm() >= 1
\* (norm() >= 1 iff inner(v, v) >= 1).
RandomDraws(min, max) ==
    {Vector3(x, y, z) : x \in randBetween(min, max), y \in randBetween(min, max),
                        z \in randBetween(min, max)}
RandomRejected(vec) == inner(vec, vec) >= 1

\* Vector3.random(min, max): the values the loop can return.
Vector3Random(min, max) == {vec \in RandomDraws(min, max) : ~RandomRejected(vec)}

(***************************************************************************)
(* Ray.                                                                    *)
(***************************************************************************)
Ray(origin, direction) == [origin |-> origin, direction |-> normalize(direction)]

at(ray, t) == add(ray.origin, times(ray.direction, t))

(***************************************************************************)
(* Primitives.  A primitive is a record with type "Sphere" or "Plane";     *)
(* radius is read for spheres and normalVec for planes only.               *)
(***************************************************************************)
Material(diffuse, specular, ambient, color) ==
    [color |-> color, diffuse |-> diffuse, specular |-> specular, ambient |-> ambient]

Sphere(x, y, z, radius, material) ==
    [type |-> "Sphere", position |-> Vector3(x, y, z), radius |-> radius,
     normalVec |-> Vector3(0, 0, 0), material |-> material]

Plane(x, y, z, normal, material) ==
    [type |-> "Plane", position |-> Vector3(x, y, z), radius |-> 0,
     normalVec |-> normal, material |-> material]

Light(x, y, z, intensity) ==
    [position |-> Vector3(x, y, z), intensity |-> intensity]

SphereNormal(this, pos) == normalize(subtract(pos, this.position))

\* Line 223, "t_0 = Math.min(t_0, t_1), t_1 = Math.max(t_0, t_1)": the second
\* assignment reads the t_0 the first one has just written.
SphereOrderRoots(t_0, t_1) ==
    LET new_t_0 == MathMin(t_0, t_1)
    IN [t_0 |-> new_t_0, t_1 |-> MathMax(new_t_0, t_1)]

\* Lines 216-228, given b, c and the discriminant of lines 202-204.
SphereSolve(b, c, discriminant) ==
    LET a == 1
        Choose(o) == IF GeZeroTol(o.t_1)
                     THEN (IF NumLt(o.t_0, Num(0)) THEN o.t_1 ELSE o.t_0)
                     ELSE Infinity
        Roots(num) ==
            Only({Choose(o) : o \in {SphereOrderRoots(JsDiv(num, a), JsDiv(c, num))}})
        WithSqrt(sqrtDisc) ==
            Only({Roots(num) :
                  num \in {JsDiv(IF b < 0 THEN -b - sqrtDisc ELSE -b + sqrtDisc, 2).v}})
    IN IF discriminant >= 0
       THEN Only({WithSqrt(sqrtDisc) : sqrtDisc \in {Sqrt(discriminant)}})
       ELSE Infinity

SphereCheckIntersection(this, ray) ==
    LET A == ray.origin
        r == ray.direction
        a == 1
        Quadratic(O) ==
            Only({SphereSolve(b, c, b * b - 4 * a * c) :
                  b \in {2 * inner(O, r)},
                  c \in {inner(O, O) - this.radius * this.radius}})
    IN Only({Quadratic(O) : O \in {subtract(A, this.position)}})

PlaneNormal(this, pos) == this.normalVec

PlaneCheckIntersection(this, ray) ==
    LET A == ray.origin
        b == ray.direction
        normal == PlaneNormal(this, A)
        denominator == inner(normal, b)
    IN IF AbsLtZeroTol(denominator) THEN Infinity
       ELSE LET t == JsDiv(inner(subtract(this.position, A), normal), denominator)
            IN IF GtZeroTol(t) THEN t ELSE Infinity

\* object.normal(pos) and object.checkIntersection(ray), dispatched on the type.
normal(object, pos) ==
    IF object.type = "Sphere" THEN SphereNormal(object, pos) ELSE PlaneNormal(object, pos)

checkIntersection(object, ray) ==
    IF object.type = "Sphere" THEN SphereCheckIntersection(object, ray)
    ELSE PlaneCheckIntersection(object, ray)


(***************************************************************************)
(* The scene.  A scene is a record                                         *)
(*   [lights, objects : sequences; camera; image]                          *)
(* A reference to a primitive is its index in scene.objects; 0 is null.    *)
(***************************************************************************)
\* "intersection.t >= intersectSolution": a tie replaces the primitive found.
CloserOrTied(intersectSolution, t) ==
    NumLt(intersectSolution, Infinity) /\ (NumLt(intersectSolution, t) \/ intersectSolution = t)

\* Line 130: intersectSolution < Infinity && intersection.t > intersectSolution.
Closer(intersectSolution, t) ==
    NumLt(intersectSolution, Infinity) /\ NumLt(intersectSolution, t)

RECURSIVE closestIntersectionFrom(_, _, _, _)
closestIntersectionFrom(objects, ray, i, intersection) ==
    LET Step(intersectSolution) ==
            IF Closer(intersectSolution, intersection.t)
            THEN [object |-> i, t |-> intersectSolution]
            ELSE intersection
    IN IF i > Len(objects) THEN intersection
       ELSE Only({closestIntersectionFrom(objects, ray, i + 1, next) :
                  next \in {Only({Step(intersectSolution) :
                                  intersectSolution \in {checkIntersection(objects[i], ray)}})}})

closestIntersection(sc, ray) ==
    Only({closestIntersectionFrom(sc.objects, r, 1, [object |-> 0, t |-> Infinity]) :
          r \in {ray}})

\* A test that accepts any hit, whichever primitive it is on.
LightVisibleTestAnyHit(intersection, object) ==
    intersection.object # 0 /\ GtNegZeroTol(intersection.t)

\* Line 170: the test on the closest intersection of the ray from the light.
LightVisibleTest(intersection, object) ==
    intersection.object = object /\ GtNegZeroTol(intersection.t)

\* Light.prototype.visible(pos, object); object is a reference (an index).
LightVisible(sc, this, pos, object) ==
    LightVisibleTest(closestIntersection(sc, Ray(this.position, subtract(pos, this.position))),
                     object)

\* Material.reflect(v, normal)
MaterialReflect(v, n) == subtract(v, times(n, 2 * inner(n, v)))

\* Lines 104-110: the loop over the lights from index i on.
RECURSIVE LambertianLoop(_, _, _, _, _, _)
LambertianLoop(sc, rayIntPoint, surfaceNormal, object, i, lambertianAmount) ==
    LET Lit(L) == lambertianAmount + (IF L > 0 THEN L ELSE 0)
    IN IF i > Len(sc.lights) THEN lambertianAmount
       ELSE LambertianLoop(sc, rayIntPoint, surfaceNormal, object, i + 1,
                IF LightVisible(sc, sc.lights[i], rayIntPoint, object)
                THEN Lit(inner(normalize(subtract(sc.lights[i].position, rayIntPoint)),
                               surfaceNormal) * sc.lights[i].intensity)
                ELSE lambertianAmount)

\* "depth-- < 1": the test made on the depth before the decrement.
DepthExhaustedPostDecrement(depth) == depth < 1

\* "--depth < 0": the recursion stopped one level later.
DepthExhaustedBelowZero(depth) == depth - 1 < 0

\* Line 98, "if (--depth < 1) return reflection": whether computeColor returns
\* at once, given the depth it was called with.
DepthExhausted(depth) == depth - 1 < 1

(***************************************************************************)
(* traceRay, computeColor and Material.scatter as functions of the scene   *)
(* they run in.  Each returns [ret, scene]: the value returned and the     *)
(* scene after the call (the calls run on the one global scene object).    *)
(* Vector3.random returns one of Vector3Random(-1, 1).  computeColor is    *)
(* written as its three parts in sequence: the diffuse part (lines         *)
(* 100-113), the specular part (lines 115-120) and the sum (line 121).     *)
(***************************************************************************)
RECURSIVE traceRay(_, _, _)
RECURSIVE computeColor(_, _, _, _)
RECURSIVE MaterialScatter(_, _, _, _)
RECURSIVE computeColorSpecular(_, _, _, _, _, _, _)

\* Line 121; color is the material's colour object as it is now.
computeColorSum(sc, o, reflection, lambertianAmount) ==
    LET color == sc.objects[o].material.color
        object == sc.objects[o]
    IN [ret |-> add(add(reflection,
                        times(color, lambertianAmount * object.material.diffuse)),
                    times(color, object.material.ambient)),
        scene |-> sc]

\* Lines 115-120.
computeColorSpecular(sc, ray, o, depth, rayIntPoint, surfaceNormal, lambertianAmount) ==
    LET specularScale == sc.objects[o].material.specular
        Reflected(tr) ==
            computeColorSum(tr.scene, o, times(tr.ret, specularScale), lambertianAmount)
    IN IF specularScale > 0
       THEN Reflected(traceRay(sc, Ray(rayIntPoint,
                                       MaterialReflect(ray.direction, surfaceNormal)),
                               depth))
       ELSE computeColorSum(sc, o, Vector3(0, 0, 0), lambertianAmount)

\* Line 112, color.add(scatter result): color is the material's own colour
\* object; the value add returns is dropped.
ScatterAdded(sct, o) ==
    [sct.scene EXCEPT !.objects[o].material.color = Vector3Add(@, sct.ret).this]

\* Lines 100-113, then the rest of computeColor.
computeColorDiffuse(sc, ray, intersection, depth, rayIntPoint, surfaceNormal) ==
    LET o == intersection.object
        lambertianScale == sc.objects[o].material.diffuse
        Clamp(s) == IF s < 1 THEN s ELSE 1
    IN IF lambertianScale > 0
       THEN computeColorSpecular(
                ScatterAdded(MaterialScatter(sc, ray, intersection, depth), o),
                ray, o, depth, rayIntPoint, surfaceNormal,
                Clamp(LambertianLoop(sc, rayIntPoint, surfaceNormal, o, 1, 0)))
       ELSE computeColorSpecular(sc, ray, o, depth, rayIntPoint, surfaceNormal, 0)

computeColor(sc, ray, intersection, depth) ==
    LET object == sc.objects[intersection.object]
        reflection == Vector3(0, 0, 0)
        WithPoint(rayIntPoint) ==
            computeColorDiffuse(sc, ray, intersection, depth - 1, rayIntPoint,
                                normal(object, rayIntPoint))
    IN IF DepthExhausted(depth) THEN [ret |-> reflection, scene |-> sc]
       ELSE WithPoint(at(ray, intersection.t.v))

\* Black whatever the scene's background is.
MissColorBlack(sc) == Vector3(0, 0, 0)

\* Line 87: the value returned when the closest intersection has no object.
MissColor(sc) == sc.camera.background

\* Lines 86-88, given the closest intersection.
traceRayOn(sc, ray, depth, intersection) ==
    IF intersection.object = 0 THEN [ret |-> MissColor(sc), scene |-> sc]
    ELSE computeColor(sc, ray, intersection, depth)

traceRay(sc, ray, depth) == traceRayOn(sc, ray, depth, closestIntersection(sc, ray))

MaterialScatter(sc, ray, intersection, depth) ==
    LET Bounce(p) ==
            LET hitNormal == times(normal(sc.objects[intersection.object], p), -1)
                targ == add(hitNormal, CHOOSE vec \in Vector3Random(-1, 1) : TRUE)
            IN traceRay(sc, Ray(p, targ), depth)
    IN Bounce(at(ray, intersection.t.v))

(***************************************************************************)
(* State.                                                                  *)
(***************************************************************************)
VARIABLES
    scene,          \* the global scene object (line 263)
    rendering,      \* the flag of line 359
    renderCount,    \* line 361
    objProps,       \* the pending property edits of the selected entity (line 360)
    objectSelector, \* the index of the "objectSelector" dropdown
    renders,        \* the activations of renderScene that have not returned
    edits,          \* the number of editor events delivered so far
    stack,          \* the call stack of a traceRay call run step by step
    result,         \* the value the last call on the stack returned
    counts,         \* the calls made so far: Light.visible, scatter, specular traceRay
    call            \* one call of a routine under study: its arguments and result

vars == <<scene, rendering, renderCount, objProps, objectSelector, renders, edits, stack,
         result, counts, call>>

MaxCoord == 2
MaxRadius == 2

Coords == -MaxCoord..MaxCoord

NoCall == [fn |-> "none", returned |-> FALSE]

\* objProps = {} (line 360): no pending edit of any property.
NoProps ==
    [radius |-> [set |-> FALSE, v |-> 0],
     intensity |-> [set |-> FALSE, v |-> 0],
     normalVec |-> [set |-> FALSE, v |-> Vector3(0, 0, 0)]]

\* image.scale is the rational scale / ScaleDen, so that width * scale and
\* height * scale need not be integers.
ScaleDen == 2

EmptyScene ==
    [lights |-> <<>>, objects |-> <<>>,
     camera |-> [pos |-> Vector3(0, 0, 0), direction |-> Vector3(0, 0, 1),
                 up |-> Vector3(0, 1, 0), fov |-> 40,
                 background |-> Vector3(0, 0, 0),
                 ray_tracing_depth |-> 3, antialiasing_samples_per_pixel |-> 1],
     image |-> [width |-> 2, height |-> 2, scale |-> ScaleDen]]

(***************************************************************************)
(* Sphere.checkIntersection as a function of the sphere and the ray.  The  *)
(* rays run along the z axis; the sphere's centre lies in the x-z plane at *)
(* a distance from the ray's line of 0, radius (tangent) or radius + 1     *)
(* (miss), so that every discriminant is a perfect square or negative.     *)
(***************************************************************************)
SphereCallsOfRadius(radius) ==
    {[fn |-> "Sphere.checkIntersection", returned |-> FALSE, ret |-> NaN,
      this |-> Sphere(cx, 0, cz, radius, Material(0, 0, 0, Vector3(0, 0, 0))),
      ray |-> Ray(Vector3(0, 0, oz), Vector3(0, 0, dz))] :
        cx \in {0, radius, radius + 1}, cz \in Coords, oz \in Coords, dz \in {-1, 1}}

SphereCalls == UNION {SphereCallsOfRadius(radius) : radius \in 0..MaxRadius}

\* The part of the state a specification of single calls does not use.
AppIdle ==
    /\ rendering = FALSE
    /\ renderCount = 0
    /\ objProps = NoProps
    /\ objectSelector = 0
    /\ renders = <<>>
    /\ edits = 0

appVars == <<rendering, renderCount, objProps, objectSelector, renders, edits>>

\* No traceRay call is being stepped.
NoCounts == [visible |-> 0, scatter |-> 0, specular |-> 0]

TraceIdle ==
    /\ stack = <<>>
    /\ result = Vector3(0, 0, 0)
    /\ counts = NoCounts

traceVars == <<stack, result, counts>>

InitSphere ==
    /\ scene = EmptyScene
    /\ AppIdle
    /\ TraceIdle
    /\ call \in SphereCalls

CallSphereCheckIntersection ==
    /\ call.fn = "Sphere.checkIntersection"
    /\ ~call.returned
    /\ call' = [call EXCEPT !.returned = TRUE,
                            !.ret = SphereCheckIntersection(call.this, call.ray)]
    /\ UNCHANGED <<scene, appVars, traceVars>>

NextSphere == CallSphereCheckIntersection

SpecSphere == InitSphere /\ [][NextSphere]_vars

\* The quadratic of a call: b, c, the discriminant and the two candidate
\* roots num / a and c / num of lines 218-220.
SphereB(cl) == 2 * inner(subtract(cl.ray.origin, cl.this.position), cl.ray.direction)
SphereC(cl) ==
    LET O == subtract(cl.ray.origin, cl.this.position)
    IN inner(O, O) - cl.this.radius * cl.this.radius
SphereDisc(cl) == SphereB(cl) * SphereB(cl) - 4 * SphereC(cl)
SphereNum(cl) ==
    (IF SphereB(cl) < 0 THEN -SphereB(cl) - Sqrt(SphereDisc(cl))
     ELSE -SphereB(cl) + Sqrt(SphereDisc(cl))) \div 2
\* The smaller and the larger of the two candidate roots (both finite).
SphereLo(cl) ==
    LET r0 == SphereNum(cl)
        r1 == SphereC(cl) \div SphereNum(cl)
    IN IF r0 < r1 THEN r0 ELSE r1
SphereHi(cl) ==
    LET r0 == SphereNum(cl)
        r1 == SphereC(cl) \div SphereNum(cl)
    IN IF r0 < r1 THEN r1 ELSE r0

\* C10 (as claimed): with a non-negative discriminant and two finite candidate
\* roots, checkIntersection returns the smaller root if it is >= 0, else the
\* larger, provided the larger root is >= epsilon, and +infinity otherwise;
\* for either sign of b.
C10_OrderedRoots ==
    (call.fn = "Sphere.checkIntersection" /\ call.returned
       /\ SphereDisc(call) >= 0 /\ SphereNum(call) # 0)
    => call.ret = (IF GeZeroTol(Num(SphereHi(call)))
                   THEN (IF SphereLo(call) >= 0 THEN Num(SphereLo(call))
                         ELSE Num(SphereHi(call)))
                   ELSE Infinity)

\* What the code does instead: for b < 0 the claim's value; for b >= 0
\* +infinity whatever the roots are (t_1 is overwritten with the smaller root).
C10_CodeBehaviour ==
    (call.fn = "Sphere.checkIntersection" /\ call.returned
       /\ SphereDisc(call) >= 0 /\ SphereNum(call) # 0 /\ SphereB(call) >= 0)
    => call.ret = Infinity


(***************************************************************************)
(* The GUI application (lines 355-612).                                    *)
(*                                                                         *)
(* renderScene runs for a long time and hands each finished scanline to    *)
(* the display (line 349); the click handler of renderBtn guards against   *)
(* a click that arrives while a render is running (lines 505-506).  The    *)
(* model therefore lets the host deliver an event between two pixels of a  *)
(* running render: an activation of renderScene is a record in `renders'   *)
(* that advances one pixel, one end of scanline or its return per step,    *)
(* and every other handler is one atomic step.  Which widget is on which   *)
(* screen is not part of the source, so no handler is gated by the screen. *)
(* The viewport mapping of lines 298-308 and 328 (tan, cross products,     *)
(* jitter by Math.random) is not computed: the direction of each sample's  *)
(* primary ray is drawn from PrimaryDirections.                            *)
(***************************************************************************)
MaxRenders == 2
MaxEntities == 3
MaxEdits == 2

\* Every editor event counts against MaxEdits.
EditorEvent == edits < MaxEdits /\ edits' = edits + 1

\* lights.concat(objects).length
EntityCount(sc) == Len(sc.lights) + Len(sc.objects)

\* objectOfIndex() (lines 475-479), for the selector index i: the list the
\* selected entity is in and its (0-based) index there.
objectOfIndex(sc, i) ==
    [list |-> IF i > Len(sc.lights) - 1 THEN "objects" ELSE "lights",
     index |-> IF i > Len(sc.lights) - 1 THEN i - Len(sc.lights) ELSE i]

\* Array.prototype.splice(index, 1) on a sequence; a negative index counts
\* from the end, an index past the end removes nothing.
Splice1(list, index) ==
    LET at0 == IF index < 0 THEN (IF Len(list) + index < 0 THEN 0 ELSE Len(list) + index)
               ELSE index
    IN IF at0 >= Len(list) THEN list
       ELSE [k \in 1..(Len(list) - 1) |-> IF k <= at0 THEN list[k] ELSE list[k + 1]]

\* initializeBuilder(index) (lines 369-376): the selector shows the option
\* `index' when index is truthy and the first option (none when there is no
\* option) otherwise; loadObjectProperties resets objProps.
SelectorAfterReload(sc, index) ==
    IF EntityCount(sc) = 0 THEN -1 ELSE IF index # 0 THEN index ELSE 0

PrimaryDirections == {Vector3(0, 0, 1), Vector3(1, 0, 0)}

\* What the user has typed into the entity panel when saveBtn is clicked.
ObjectForms ==
    {[xInp |-> 0, yInp |-> 0, zInp |-> 2, diffuseInp |-> 1, specularInp |-> 0,
      ambientInp |-> 1, rInp |-> 2, gInp |-> 4, bInp |-> 6],
     [xInp |-> 0, yInp |-> 0, zInp |-> -1, diffuseInp |-> 0, specularInp |-> 1,
      ambientInp |-> 0, rInp |-> 8, gInp |-> 0, bInp |-> 0]}

\* What the render-options panel holds when renderSaveBtn is clicked.
CameraForms ==
    {[camPos |-> Vector3(0, 0, 0), camDir |-> Vector3(0, 0, 1), upDir |-> Vector3(0, 1, 0),
      bgColor |-> Vector3(0, 0, 0), fovDisplay |-> 40, rtDepthDisplay |-> 3,
      ssaaDisplay |-> 0, imgWidthInp |-> 2, imgHeightInp |-> 2, imgScaleInp |-> ScaleDen],
     [camPos |-> Vector3(0, 0, 1), camDir |-> Vector3(0, 0, 2), upDir |-> Vector3(0, 1, 0),
      bgColor |-> Vector3(10, 20, 30), fovDisplay |-> 60, rtDepthDisplay |-> 2,
      ssaaDisplay |-> 2, imgWidthInp |-> 1, imgHeightInp |-> 3, imgScaleInp |-> 1]}

\* The scene the application starts with: the default scene of lines 263-288
\* reduced to one light, a mirror sphere and the floor, on the z axis, on a
\* small image.
DefaultScene ==
    [lights |-> <<Light(0, 0, -2, 1)>>,
     objects |-> <<Sphere(0, 0, 2, 1, Material(1, 1, 1, Vector3(20, 20, 20))),
                   Plane(0, 0, 4, Vector3(0, 0, -1), Material(1, 0, 1, Vector3(60, 62, 64)))>>,
     camera |-> EmptyScene.camera,
     image |-> EmptyScene.image]

\* progByScanLine(j) (lines 340-342), for an activation with height
\* heightNum / ScaleDen: Math.floor(100 * j / Math.ceil(height - 1)).
progByScanLine(heightNum, j) ==
    JsFloorDiv(100 * j, (heightNum - ScaleDen + ScaleDen - 1) \div ScaleDen)

\* Lines 343-346.  The if statement has no braces: it governs the
\* console.log alone, and setText runs for every scanline.
ScanlineNotifications(heightNum, y) ==
    LET currentProgress == progByScanLine(heightNum, y)
    IN (IF NumNeq(progByScanLine(heightNum, y - 1), currentProgress)
        THEN <<[to |-> "console", y |-> y, value |-> currentProgress]>>
        ELSE <<>>)
       \o <<[to |-> "progressBox", y |-> y, value |-> currentProgress]>>

\* Lines 327-334: the samples of one pixel, from sample i on; dirs[i] is the
\* direction of sample i.  Returns the summed colour and the scene after.
RECURSIVE SampleLoop(_, _, _, _, _)
SampleLoop(sc, dirs, i, color, rayTraceDepth) ==
    LET Traced(tr) == SampleLoop(tr.scene, dirs, i + 1, add(color, tr.ret), rayTraceDepth)
    IN IF i > Len(dirs) THEN [ret |-> color, scene |-> sc]
       ELSE Traced(traceRay(sc, Ray(sc.camera.pos, dirs[i]), rayTraceDepth))

\* The loop tests of lines 320 and 321, y < height and x < width, for
\* height = heightNum / ScaleDen and width = widthNum / ScaleDen.
RowLoopTest(y, heightNum) == y * ScaleDen < heightNum
ColumnLoopTestInclusive(x, widthNum) == x * ScaleDen <= widthNum
ColumnLoopTest(x, widthNum) == x * ScaleDen < widthNum

\* Line 506: whether a click on renderBtn starts a render.
UnguardedRenderStart(flag) == TRUE
MayStartRender(flag) == ~flag

\* onEvent("renderBtn", "click") up to the call of renderScene, and the start
\* of renderScene (lines 293-316).
RenderBtnClick ==
    /\ renderCount + Len(renders) < MaxRenders
    /\ IF MayStartRender(rendering)
       THEN /\ rendering' = TRUE
            /\ renders' = Append(renders,
                   [canvas |-> renderCount,
                    rayTraceDepth |-> scene.camera.ray_tracing_depth,
                    widthNum |-> scene.image.width * scene.image.scale,
                    heightNum |-> scene.image.height * scene.image.scale,
                    sampleCount |-> scene.camera.antialiasing_samples_per_pixel,
                    x |-> 0, y |-> 0,
                    pc |-> IF RowLoopTest(0, scene.image.height * scene.image.scale)
                           THEN "row" ELSE "return",
                    imageData |-> <<>>,
                    notifications |-> <<>>])
       ELSE UNCHANGED <<rendering, renders>>
    /\ UNCHANGED <<edits, scene, renderCount, objProps, objectSelector, call, traceVars>>

\* One pixel of the loop of lines 321-337 of activation r.
RenderPixel(r) ==
    LET a == renders[r] IN
    /\ a.pc = "row"
    /\ ColumnLoopTest(a.x, a.widthNum)
    /\ \E dirs \in [1..a.sampleCount -> PrimaryDirections] :
         LET Write(sum) ==
               /\ scene' = sum.scene
               /\ renders' = [renders EXCEPT
                      ![r].imageData = Append(@, [x |-> a.x, y |-> a.y,
                                                  color |-> divide(sum.ret, a.sampleCount)]),
                      ![r].x = a.x + 1]
         IN Write(SampleLoop(scene, dirs, 1, Vector3(0, 0, 0), a.rayTraceDepth))
    /\ UNCHANGED <<edits, rendering, renderCount, objProps, objectSelector, call, traceVars>>

\* The end of scanline y of activation r (lines 339-350).
RenderScanlineEnd(r) ==
    LET a == renders[r] IN
    /\ a.pc = "row"
    /\ ~ColumnLoopTest(a.x, a.widthNum)
    /\ renders' = [renders EXCEPT
           ![r].notifications = @ \o ScanlineNotifications(a.heightNum, a.y),
           ![r].y = a.y + 1,
           ![r].x = 0,
           ![r].pc = IF RowLoopTest(a.y + 1, a.heightNum) THEN "row" ELSE "return"]
    /\ UNCHANGED <<edits, scene, rendering, renderCount, objProps, objectSelector, call, traceVars>>

\* The return of renderScene (lines 351-353) and the rest of the click
\* handler (lines 509-510).
RenderReturn(r) ==
    /\ renders[r].pc = "return"
    /\ renders' = Splice1(renders, r - 1)
    /\ renderCount' = renderCount + 1
    /\ rendering' = FALSE
    /\ UNCHANGED <<edits, scene, objProps, objectSelector, call, traceVars>>

\* onEvent("objectSelector", "change"): the user selects entity i.
ObjectSelectorChange(i) ==
    /\ EditorEvent
    /\ i \in 0..(EntityCount(scene) - 1)
    /\ i # objectSelector
    /\ objectSelector' = i
    /\ objProps' = NoProps
    /\ UNCHANGED <<scene, rendering, renderCount, renders, call, traceVars>>

\* onEvent("propValue", "change") and saveVectorLocally: the user types a
\* value for the property the dropdown shows for the selected entity
\* (radius of a sphere, normalVec of a plane, intensity of a light).
PropChange ==
    /\ EditorEvent
    /\ objectSelector >= 0
    /\ LET o == objectOfIndex(scene, objectSelector) IN
       IF o.list = "lights"
       THEN \E v \in {2} : objProps' = [objProps EXCEPT !.intensity = [set |-> TRUE, v |-> v]]
       ELSE IF scene.objects[o.index + 1].type = "Sphere"
       THEN \E v \in {0, 1} : objProps' = [objProps EXCEPT !.radius = [set |-> TRUE, v |-> v]]
       ELSE \E v \in {Vector3(0, 0, 1), Vector3(0, 0, -1)} :
                objProps' = [objProps EXCEPT !.normalVec = [set |-> TRUE, v |-> v]]
    /\ objProps' # objProps
    /\ UNCHANGED <<scene, rendering, renderCount, objectSelector, renders, call, traceVars>>

\* onEvent("removeBtn", "click")
RemoveBtnClick ==
    /\ EditorEvent
    /\ LET object == objectOfIndex(scene, objectSelector)
           after == IF object.list = "lights"
                    THEN [scene EXCEPT !.lights = Splice1(@, object.index)]
                    ELSE [scene EXCEPT !.objects = Splice1(@, object.index)]
       IN /\ scene' = after
          /\ objectSelector' = SelectorAfterReload(after, 0)
    /\ objProps' = NoProps
    /\ UNCHANGED <<rendering, renderCount, renders, call, traceVars>>

\* onEvent("saveBtn", "click").  With nothing selected obj is undefined and
\* line 523 throws before anything is written.
SaveBtnClick ==
    /\ EditorEvent
    /\ objectSelector >= 0
    /\ \E form \in ObjectForms :
         LET objects == objectOfIndex(scene, objectSelector)
             k == objects.index + 1
             position == Vector3(form.xInp, form.yInp, form.zInp)
         IN IF objects.list = "lights"
            THEN scene' = [scene EXCEPT
                     !.lights[k].position = position,
                     !.lights[k].intensity =
                         IF objProps.intensity.set THEN objProps.intensity.v ELSE @]
            ELSE scene' = [scene EXCEPT
                     !.objects[k].position = position,
                     !.objects[k].radius =
                         IF objProps.radius.set THEN objProps.radius.v ELSE @,
                     !.objects[k].normalVec =
                         IF objProps.normalVec.set THEN objProps.normalVec.v ELSE @,
                     !.objects[k].material =
                         Material(form.diffuseInp, form.specularInp, form.ambientInp,
                                  Vector3(form.rInp, form.gInp, form.bInp))]
    /\ UNCHANGED <<rendering, renderCount, objProps, objectSelector, renders, call, traceVars>>

\* onEvent("addBtn", "click"): new objectTypes[objectName]() with no
\* arguments, appended to its list.
AddBtnClick ==
    /\ EditorEvent
    /\ EntityCount(scene) < MaxEntities
    /\ \E objectName \in {"Plane", "Sphere", "Light"} :
         LET after ==
               IF objectName = "Light"
               THEN [scene EXCEPT !.lights = Append(@, Light(0, 0, 0, 1))]
               ELSE IF objectName = "Sphere"
               THEN [scene EXCEPT !.objects =
                         Append(@, Sphere(0, 0, 0, 0, Material(0, 0, 0, Vector3(0, 0, 0))))]
               ELSE [scene EXCEPT !.objects =
                         Append(@, Plane(0, 0, 0, Vector3(0, 0, 0),
                                         Material(0, 0, 0, Vector3(0, 0, 0))))]
             i == IF objectName = "Light" THEN Len(scene.lights)
                  ELSE Len(scene.lights) + Len(scene.objects)
         IN /\ scene' = after
            /\ objectSelector' = SelectorAfterReload(after, i)
    /\ objProps' = NoProps
    /\ UNCHANGED <<rendering, renderCount, renders, call, traceVars>>

\* onEvent("renderSaveBtn", "click")
RenderSaveBtnClick ==
    /\ EditorEvent
    /\ \E form \in CameraForms :
         scene' = [scene EXCEPT
             !.camera = [pos |-> form.camPos, direction |-> form.camDir, up |-> form.upDir,
                         background |-> form.bgColor, fov |-> form.fovDisplay,
                         ray_tracing_depth |-> form.rtDepthDisplay,
                         antialiasing_samples_per_pixel |->
                             IF form.ssaaDisplay > 0 THEN form.ssaaDisplay ELSE 1],
             !.image = [width |-> form.imgWidthInp, height |-> form.imgHeightInp,
                        scale |-> form.imgScaleInp]]
    /\ scene' # scene
    /\ UNCHANGED <<rendering, renderCount, objProps, objectSelector, renders, call, traceVars>>

Init ==
    /\ scene = DefaultScene
    /\ rendering = FALSE
    /\ renderCount = 0
    /\ objProps = NoProps
    /\ objectSelector = 0
    /\ renders = <<>>
    /\ edits = 0
    /\ TraceIdle
    /\ call = NoCall

Next ==
    \/ RenderBtnClick
    \/ \E r \in 1..Len(renders) : RenderPixel(r)
    \/ \E r \in 1..Len(renders) : RenderScanlineEnd(r)
    \/ \E r \in 1..Len(renders) : RenderReturn(r)
    \/ \E i \in 0..(MaxEntities - 1) : ObjectSelectorChange(i)
    \/ PropChange
    \/ RemoveBtnClick
    \/ SaveBtnClick
    \/ AddBtnClick
    \/ RenderSaveBtnClick

Spec == Init /\ [][Next]_vars


(***************************************************************************)
(* Properties of the application.                                          *)
(***************************************************************************)
RenderStep ==
    \/ \E r \in 1..Len(renders) : RenderPixel(r)
    \/ \E r \in 1..Len(renders) : RenderScanlineEnd(r)
    \/ \E r \in 1..Len(renders) : RenderReturn(r)

\* C1: at most one render is in flight at any time; a click on renderBtn
\* while a render is active starts nothing and leaves the active render as
\* it is; a click when no render is active starts exactly one render.
C1_OneRenderInFlight ==
    [][/\ Len(renders') <= 1
       /\ (RenderBtnClick /\ Len(renders) >= 1 => renders' = renders)
       /\ (RenderBtnClick /\ Len(renders) = 0 =>
              Len(renders') = 1 /\ renders'[1].imageData = <<>>)]_vars

\* A render is under way (it has written pixels) and another click on
\* renderBtn can arrive.
C1_Witness ==
    /\ rendering
    /\ Len(renders) = 1
    /\ renders[1].imageData # <<>>
    /\ renderCount + Len(renders) < MaxRenders

C3_RenderOnlyReads == [][RenderBtnClick \/ RenderStep => scene' = scene]_vars

\* A render of the default scene has returned a colour other than the
\* background for a pixel: it has shaded the diffuse, specular sphere.
C3_Witness ==
    /\ edits = 0
    /\ \E r \in 1..Len(renders) :
         /\ renders[r].pc = "return"
         /\ \E k \in 1..Len(renders[r].imageData) :
              renders[r].imageData[k].color # scene.camera.background

\* The pixels (x, y) with 0 <= x < width and 0 <= y < height of an activation.
PixelsOf(a) ==
    {p \in (0..a.widthNum) \X (0..a.heightNum) :
        p[1] * ScaleDen < a.widthNum /\ p[2] * ScaleDen < a.heightNum}

\* C4: renderScene writes the pixels with 0 <= x < width and 0 <= y < height
\* only, each at most once, in row-major order, and when it returns every
\* one of them has been written.
C4_RowMajorOnce ==
    \A r \in 1..Len(renders) :
      LET a == renders[r] IN
      /\ \A k \in 1..Len(a.imageData) :
           <<a.imageData[k].x, a.imageData[k].y>> \in PixelsOf(a)
      /\ \A k, l \in 1..Len(a.imageData) :
           k < l => \/ a.imageData[k].y < a.imageData[l].y
                    \/ /\ a.imageData[k].y = a.imageData[l].y
                       /\ a.imageData[k].x < a.imageData[l].x
      /\ a.pc = "return" => Len(a.imageData) = Cardinality(PixelsOf(a))

\* A render of an image of at least two rows and two columns is about to
\* return.
C4_Witness ==
    \E r \in 1..Len(renders) :
      /\ renders[r].pc = "return"
      /\ \E k \in 1..Len(renders[r].imageData) :
           renders[r].imageData[k].x >= 1 /\ renders[r].imageData[k].y >= 1


(***************************************************************************)
(* The progress reports of renderScene on tall images: renders of a scene  *)
(* without primitives, one pixel wide, image.scale = 1, of 2, 3 and        *)
(* MaxProgressHeight rows (the default image has 450).                     *)
(***************************************************************************)
MaxProgressHeight == 102

ProgressHeights == {2, 3, MaxProgressHeight}

InitProgress ==
    /\ \E h \in ProgressHeights :
         scene = [EmptyScene EXCEPT !.image = [width |-> 1, height |-> h, scale |-> ScaleDen]]
    /\ rendering = FALSE
    /\ renderCount = 0
    /\ objProps = NoProps
    /\ objectSelector = -1
    /\ renders = <<>>
    /\ edits = 0
    /\ TraceIdle
    /\ call = NoCall

NextProgress == RenderBtnClick \/ RenderStep

SpecProgress == InitProgress /\ [][NextProgress]_vars

\* C5 (as claimed): every notification of a scanline y carries
\* floor(100 * y / (height - 1)), and a scanline whose percentage equals the
\* previous scanline's emits no notification, neither a console line nor a
\* progressBox text.
C5_ProgressOnlyOnChange ==
    \A r \in 1..Len(renders) :
      LET a == renders[r]
          pct(y) == (100 * y * ScaleDen) \div (a.heightNum - ScaleDen)
      IN \A k \in 1..Len(a.notifications) :
           LET n == a.notifications[k]
           IN n.value = Num(pct(n.y)) /\ pct(n.y) # pct(n.y - 1)

\* What the code does: the value is as claimed and the console line is
\* emitted on a change only, but the progressBox text is set after every
\* scanline.
C5_CodeBehaviour ==
    \A r \in 1..Len(renders) :
      LET a == renders[r]
          pct(y) == (100 * y * ScaleDen) \div (a.heightNum - ScaleDen)
      IN /\ \A k \in 1..Len(a.notifications) :
              LET n == a.notifications[k]
              IN /\ n.value = Num(pct(n.y))
                 /\ n.to = "console" => pct(n.y) # pct(n.y - 1)
         /\ \A y \in 0..(a.y - 1) :
              \E k \in 1..Len(a.notifications) :
                 a.notifications[k].to = "progressBox" /\ a.notifications[k].y = y

(***************************************************************************)
(* Calls of Light.prototype.visible: a light, a surface point and a        *)
(* candidate primitive of a scene of MaxObjects primitives at most, all    *)
(* on the z axis.                                                          *)
(***************************************************************************)
MaxObjects == 2

Matte == Material(1, 0, 1, Vector3(20, 20, 20))

VisiblePrimitives ==
    {Sphere(0, 0, z, 1, Matte) : z \in Coords}
        \cup {Plane(0, 0, z, Vector3(0, 0, 1), Matte) : z \in {-MaxCoord, MaxCoord}}

VisibleObjectLists ==
    UNION {[1..n -> VisiblePrimitives] : n \in 1..MaxObjects}

\* The light stands at the far end of the axis or at the origin.
VisibleLights == {Light(0, 0, z, 1) : z \in {-MaxCoord, 0}}

VisibleCall(objs, light, pz, o) ==
    [fn |-> "Light.visible", returned |-> FALSE, ret |-> FALSE,
     objects |-> objs, this |-> light, pos |-> Vector3(0, 0, pz), object |-> o]

InitVisible ==
    /\ \E objs \in VisibleObjectLists, light \in VisibleLights, pz \in Coords :
         \E o \in 1..Len(objs) :
            /\ call = VisibleCall(objs, light, pz, o)
            /\ scene = [EmptyScene EXCEPT !.objects = objs, !.lights = <<light>>]
    /\ AppIdle
    /\ TraceIdle

CallLightVisible ==
    /\ call.fn = "Light.visible"
    /\ ~call.returned
    /\ call' = [call EXCEPT !.returned = TRUE,
                            !.ret = LightVisible(scene, call.this, call.pos, call.object)]
    /\ UNCHANGED <<scene, appVars, traceVars>>

NextVisible == CallLightVisible

SpecVisible == InitVisible /\ [][NextVisible]_vars

\* The ray of a call, from the light toward the surface point, and the
\* distance at which primitive j of the scene reports a hit on it.
VisibleRay(cl) == Ray(cl.this.position, subtract(cl.pos, cl.this.position))
HitDistance(cl, j) == checkIntersection(cl.objects[j], VisibleRay(cl))

\* The candidate is the closest hit of the ray: it is hit, no primitive is
\* hit nearer, and no primitive before it in the list is hit just as near.
CandidateIsClosest(cl) ==
    /\ NumLt(HitDistance(cl, cl.object), Infinity)
    /\ \A j \in 1..Len(cl.objects) :
         /\ ~NumLt(HitDistance(cl, j), HitDistance(cl, cl.object))
         /\ (j < cl.object => HitDistance(cl, j) # HitDistance(cl, cl.object))
NothingHit(cl) == \A j \in 1..Len(cl.objects) : ~NumLt(HitDistance(cl, j), Infinity)
OtherIsNearer(cl) ==
    \E j \in 1..Len(cl.objects) :
        /\ j # cl.object
        /\ NumLt(HitDistance(cl, j), Infinity)
        /\ \/ ~NumLt(HitDistance(cl, cl.object), Infinity)
           \/ NumLt(HitDistance(cl, j), HitDistance(cl, cl.object))

\* C7: Light.visible(pos, object) returns true exactly when the closest
\* intersection of the ray from the light toward pos is with the candidate
\* object itself and its distance is greater than -zero_tol; it returns false
\* when another primitive is the nearest hit and when the ray hits nothing.
C7_VisibleIffCandidateClosest ==
    (call.fn = "Light.visible" /\ call.returned) =>
        /\ call.ret <=> (CandidateIsClosest(call)
                            /\ GtNegZeroTol(HitDistance(call, call.object)))
        /\ (OtherIsNearer(call) => ~call.ret)
        /\ (NothingHit(call) => ~call.ret)

\* A call that returned false because another primitive hides the candidate,
\* which the ray would hit too.
C7_Witness ==
    /\ call.fn = "Light.visible" /\ call.returned /\ ~call.ret
    /\ NumLt(HitDistance(call, call.object), Infinity)
    /\ OtherIsNearer(call)

(***************************************************************************)
(* One traceRay call run step by step on an explicit call stack.  A frame  *)
(* is an activation of traceRay, computeColor or Material.scatter with its *)
(* arguments, its local variables and its position pc; the top of the      *)
(* stack is the running activation, and result holds the value the last    *)
(* activation returned to its caller.  The loop of Vector3.random takes    *)
(* one step per draw.                                                      *)
(***************************************************************************)
MaxDepth == 3

NoIntersection == [object |-> 0, t |-> Infinity]

Frame(fn, ray, depth, intersection) ==
    [fn |-> fn, pc |-> "start", ray |-> ray, depth |-> depth,
     intersection |-> intersection, lambertianAmount |-> 0,
     reflection |-> Vector3(0, 0, 0), vec |-> Vector3(0, 0, 0)]

Top == stack[Len(stack)]
Pop == SubSeq(stack, 1, Len(stack) - 1)
SetTop(f) == [stack EXCEPT ![Len(stack)] = f]
Running(fn, pc) == Len(stack) > 0 /\ Top.fn = fn /\ Top.pc = pc

\* Lines 95-96 of computeColor, line 148 of scatter.
RayIntPoint(f) == at(f.ray, f.intersection.t.v)
SurfaceNormal(f) == normal(scene.objects[f.intersection.object], RayIntPoint(f))

TracePrimitives ==
    {Sphere(0, 0, 2, 1, Material(1, 1, 1, Vector3(20, 20, 20))),
     Plane(0, 0, -2, Vector3(0, 0, 1), Material(0, 1, 0, Vector3(2, 4, 6))),
     Plane(0, 0, -1, Vector3(0, 0, 1), Material(1, 0, 1, Vector3(60, 62, 64)))}

TraceScenes ==
    {[EmptyScene EXCEPT !.objects = objs, !.lights = ls,
                        !.camera.background = Vector3(10, 20, 30)] :
        objs \in UNION {[1..n -> TracePrimitives] : n \in 0..MaxObjects},
        ls \in {<<>>, <<Light(0, 0, -2, 1)>>}}

\* The primary rays: from the camera along its axis, backwards, and sideways.
TraceRays ==
    {Ray(Vector3(0, 0, 0), d) : d \in PrimaryDirections \cup {Vector3(0, 0, -1)}}

InitTrace ==
    /\ scene \in TraceScenes
    /\ AppIdle
    /\ \E ray \in TraceRays, depth \in 0..MaxDepth :
         /\ call = [fn |-> "traceRay", returned |-> FALSE, ray |-> ray, depth |-> depth]
         /\ stack = <<Frame("traceRay", ray, depth, NoIntersection)>>
    /\ result = Vector3(0, 0, 0)
    /\ counts = NoCounts

\* Lines 85-88 of traceRay: return the background, or call computeColor.
TraceRayEnter ==
    LET Branch(intersection) ==
            IF intersection.object = 0
            THEN stack' = Pop /\ result' = MissColor(scene)
            ELSE /\ stack' = Append(SetTop([Top EXCEPT !.pc = "ret"]),
                                    Frame("computeColor", Top.ray, Top.depth, intersection))
                 /\ result' = result
    IN /\ Running("traceRay", "start")
       /\ Branch(closestIntersection(scene, Top.ray))
       /\ UNCHANGED <<scene, appVars, counts, call>>

\* Line 88: traceRay returns what computeColor returned.
TraceRayReturn ==
    /\ Running("traceRay", "ret")
    /\ stack' = Pop
    /\ UNCHANGED <<scene, appVars, result, counts, call>>

\* Lines 92-98 of computeColor.
ComputeColorEnter ==
    /\ Running("computeColor", "start")
    /\ IF DepthExhausted(Top.depth)
       THEN stack' = Pop /\ result' = Top.reflection
       ELSE /\ stack' = SetTop([Top EXCEPT !.depth = Top.depth - 1, !.pc = "diffuse"])
            /\ result' = result
    /\ UNCHANGED <<scene, appVars, counts, call>>

\* Lines 101-112 up to the call of scatter: the loop over the lights, one
\* Light.visible call each, and the call of scatter.
ComputeColorDiffuse ==
    LET o == Top.intersection.object
        Clamp(s) == IF s < 1 THEN s ELSE 1
    IN /\ Running("computeColor", "diffuse")
       /\ IF scene.objects[o].material.diffuse > 0
          THEN /\ stack' = Append(
                     SetTop([Top EXCEPT
                         !.lambertianAmount =
                             Clamp(LambertianLoop(scene, RayIntPoint(Top), SurfaceNormal(Top),
                                                  o, 1, 0)),
                         !.pc = "scattered"]),
                     Frame("scatter", Top.ray, Top.depth, Top.intersection))
               /\ counts' = [counts EXCEPT !.visible = @ + Len(scene.lights),
                                           !.scatter = @ + 1]
          ELSE /\ stack' = SetTop([Top EXCEPT !.pc = "specular"])
               /\ counts' = counts
       /\ UNCHANGED <<scene, appVars, result, call>>

\* Line 112 once scatter has returned: color.add(...).
ComputeColorScattered ==
    /\ Running("computeColor", "scattered")
    /\ scene' = ScatterAdded([ret |-> result, scene |-> scene], Top.intersection.object)
    /\ stack' = SetTop([Top EXCEPT !.pc = "specular"])
    /\ UNCHANGED <<appVars, result, counts, call>>

\* Lines 115-119 up to the call of traceRay.
ComputeColorSpecular ==
    /\ Running("computeColor", "specular")
    /\ IF scene.objects[Top.intersection.object].material.specular > 0
       THEN /\ stack' = Append(
                  SetTop([Top EXCEPT !.pc = "reflected"]),
                  Frame("traceRay",
                        Ray(RayIntPoint(Top),
                            MaterialReflect(Top.ray.direction, SurfaceNormal(Top))),
                        Top.depth, NoIntersection))
            /\ counts' = [counts EXCEPT !.specular = @ + 1]
       ELSE /\ stack' = SetTop([Top EXCEPT !.pc = "sum"])
            /\ counts' = counts
    /\ UNCHANGED <<scene, appVars, result, call>>

\* Line 118 once traceRay has returned: reflection = (...).times(specularScale).
ComputeColorReflected ==
    /\ Running("computeColor", "reflected")
    /\ stack' = SetTop([Top EXCEPT
           !.reflection = times(result,
                                scene.objects[Top.intersection.object].material.specular),
           !.pc = "sum"])
    /\ UNCHANGED <<scene, appVars, result, counts, call>>

\* Line 121.
ComputeColorSum ==
    /\ Running("computeColor", "sum")
    /\ result' = computeColorSum(scene, Top.intersection.object, Top.reflection,
                                 Top.lambertianAmount).ret
    /\ stack' = Pop
    /\ UNCHANGED <<scene, appVars, counts, call>>

\* Line 149 of scatter: hitNormal = intersection.object.normal(p).times(-1).
HitNormal(f) == times(SurfaceNormal(f), -1)

\* Lines 148-149 of scatter, up to the call of Vector3.random.
ScatterEnter ==
    /\ Running("scatter", "start")
    /\ stack' = SetTop([Top EXCEPT !.pc = "random"])
    /\ UNCHANGED <<scene, appVars, result, counts, call>>

\* Lines 56-57 of Vector3.random: a draw outside the unit ball, "continue".
ScatterRandomRejected ==
    /\ Running("scatter", "random")
    /\ \E vec \in RandomDraws(-1, 1) :
         /\ RandomRejected(vec)
         /\ stack' = SetTop([Top EXCEPT !.vec = vec])
    /\ UNCHANGED <<scene, appVars, result, counts, call>>

\* Lines 56-58 of Vector3.random: a draw inside the unit ball is returned;
\* lines 150-152 of scatter: the ray toward it is traced.
ScatterRandomAccepted ==
    LET hitNormal == HitNormal(Top)
    IN /\ Running("scatter", "random")
       /\ \E vec \in RandomDraws(-1, 1) :
            /\ ~RandomRejected(vec)
            /\ stack' = Append(SetTop([Top EXCEPT !.vec = vec, !.pc = "ret"]),
                               Frame("traceRay", Ray(RayIntPoint(Top), add(hitNormal, vec)),
                                     Top.depth, NoIntersection))
       /\ UNCHANGED <<scene, appVars, result, counts, call>>

\* Line 152: scatter returns what traceRay returned.
ScatterReturn ==
    /\ Running("scatter", "ret")
    /\ stack' = Pop
    /\ UNCHANGED <<scene, appVars, result, counts, call>>

NextTrace ==
    \/ TraceRayEnter
    \/ TraceRayReturn
    \/ ComputeColorEnter
    \/ ComputeColorDiffuse
    \/ ComputeColorScattered
    \/ ComputeColorSpecular
    \/ ComputeColorReflected
    \/ ComputeColorSum
    \/ ScatterEnter
    \/ ScatterRandomRejected
    \/ ScatterRandomAccepted
    \/ ScatterReturn

\* The running activation always takes its next step, and Math.random's
\* draws are independent, so a draw inside the unit ball comes eventually.
SpecTrace ==
    InitTrace /\ [][NextTrace]_vars /\ WF_vars(NextTrace) /\ WF_vars(ScatterRandomAccepted)

\* The number of activations of computeColor on the stack.
Nesting == Cardinality({k \in 1..Len(stack) : stack[k].fn = "computeColor"})

\* The stepped call returns what traceRay, as a function, returns.
TraceStepsAgree ==
    stack = <<>> => result = traceRay(scene, call.ray, call.depth).ret

\* C6: a computeColor call entered with depth <= 1 returns (0, 0, 0) at once:
\* it tests no light's visibility, calls no scatter and traces no specular
\* ray, and leaves the scene as it was.
C6_ExhaustedDepthIsBlack ==
    [][(Running("computeColor", "start") /\ Top.depth <= 1) =>
           /\ stack' = Pop
           /\ result' = Vector3(0, 0, 0)
           /\ counts' = counts
           /\ scene' = scene]_vars

\* A traceRay call of depth 1 whose computeColor call has returned black
\* with no call counted, for a lit, diffuse and specular primitive.
C6_Witness ==
    /\ call.depth = 1
    /\ Len(stack) = 1
    /\ Running("traceRay", "ret")
    /\ result = Vector3(0, 0, 0)
    /\ counts = NoCounts
    /\ scene.lights # <<>>
    /\ LET object == scene.objects[closestIntersection(scene, call.ray).object]
       IN object.material.diffuse > 0 /\ object.material.specular > 0

\* No primitive of the scene reports a finite distance on the ray.
NoPrimitiveHit(sc, ray) ==
    \A j \in 1..Len(sc.objects) : ~NumLt(checkIntersection(sc.objects[j], ray), Infinity)

\* C8: traceRay returns exactly the scene's background colour when no
\* primitive is hit by the ray; otherwise it calls computeColor on the ray,
\* the depth and a hit primitive, and returns computeColor's result.  A call
\* on a scene without primitives returns the background colour.
C8_BackgroundOrComputeColor ==
    [][/\ (Running("traceRay", "start") /\ NoPrimitiveHit(scene, Top.ray)) =>
              (stack' = Pop /\ result' = scene.camera.background)
       /\ (Running("traceRay", "start") /\ ~NoPrimitiveHit(scene, Top.ray)) =>
              /\ Len(stack') = Len(stack) + 1
              /\ stack'[Len(stack')].fn = "computeColor"
              /\ stack'[Len(stack')].ray = Top.ray
              /\ stack'[Len(stack')].depth = Top.depth
              /\ stack'[Len(stack')].intersection.object \in 1..Len(scene.objects)
              /\ stack'[Len(stack)].pc = "ret"
       /\ Running("traceRay", "ret") => (stack' = Pop /\ result' = result)
       /\ (scene.objects = <<>> /\ stack' = <<>>) => result' = scene.camera.background]_vars

\* A finished call on a scene with primitives, none of them on the ray's way.
C8_Witness ==
    /\ stack = <<>>
    /\ scene.objects # <<>>
    /\ NoPrimitiveHit(scene, call.ray)
    /\ result = scene.camera.background
    /\ result # Vector3(0, 0, 0)

\* C9: every traceRay call returns, and for a depth of 1 or more the
\* activations of computeColor nested in it are never more than the depth
\* it was called with.
C9_TerminatesWithinDepth ==
    /\ <>(stack = <<>>)
    /\ [](call.depth >= 1 => Nesting <= call.depth)

\* A call of the greatest depth that has returned after scattering and
\* reflecting.
C9_Witness ==
    /\ stack = <<>>
    /\ call.depth = MaxDepth
    /\ counts.scatter >= 1
    /\ counts.specular >= 1

\* The base colour of the running computeColor activation: its variable
\* color, the colour object of the hit primitive's material (line 93).
BaseColor == scene.objects[Top.intersection.object].material.color

\* C11 (as claimed): when diffuse > 0 the colour of the scatter sample is
\* blended into the base colour: once scatter has returned a sample other
\* than black, the base colour that the final sum of line 121 uses is no
\* longer the material colour as it was before the sample was taken.
C11_ScatterBlendedIntoBase ==
    [][(Running("computeColor", "scattered") /\ result # Vector3(0, 0, 0)) =>
           /\ Running("computeColor", "specular")'
           /\ BaseColor' # BaseColor]_vars

(***************************************************************************)
(* Calls of closestIntersection: a ray from a point of the z axis, along   *)
(* the axis or across it, in a scene of MaxObjects primitives at most      *)
(* (none included; a primitive may be in the list twice).                  *)
(***************************************************************************)
ClosestObjectLists == UNION {[1..n -> VisiblePrimitives] : n \in 0..MaxObjects}

ClosestRays ==
    {Ray(Vector3(0, 0, oz), d) :
        oz \in Coords, d \in PrimaryDirections \cup {Vector3(0, 0, -1)}}

InitClosest ==
    /\ \E objs \in ClosestObjectLists, ray \in ClosestRays :
         /\ call = [fn |-> "closestIntersection", returned |-> FALSE,
                    ret |-> NoIntersection, objects |-> objs, ray |-> ray]
         /\ scene = [EmptyScene EXCEPT !.objects = objs]
    /\ AppIdle
    /\ TraceIdle

CallClosestIntersection ==
    /\ call.fn = "closestIntersection"
    /\ ~call.returned
    /\ call' = [call EXCEPT !.returned = TRUE,
                            !.ret = closestIntersection(scene, call.ray)]
    /\ UNCHANGED <<scene, appVars, traceVars>>

NextClosest == CallClosestIntersection

SpecClosest == InitClosest /\ [][NextClosest]_vars

\* The distance primitive j of the call's scene reports on the call's ray.
Distance(cl, j) == checkIntersection(cl.objects[j], cl.ray)

\* C12: closestIntersection returns the primitive with the least finite
\* distance over all the scene's primitives, with that distance; it returns
\* {none, +infinity} when no primitive reports a finite distance; of several
\* primitives at exactly the least distance it returns the first in the list.
C12_MinimumFirstOnTie ==
    (call.fn = "closestIntersection" /\ call.returned) =>
        IF \A j \in 1..Len(call.objects) : ~NumLt(Distance(call, j), Infinity)
        THEN call.ret = [object |-> 0, t |-> Infinity]
        ELSE /\ call.ret.object \in 1..Len(call.objects)
             /\ call.ret.t = Distance(call, call.ret.object)
             /\ NumLt(call.ret.t, Infinity)
             /\ \A j \in 1..Len(call.objects) :
                  /\ ~NumLt(Distance(call, j), call.ret.t)
                  /\ (Distance(call, j) = call.ret.t => call.ret.object <= j)

\* A returned call in which two primitives of the list are at exactly the
\* least distance, and the first of them is returned.
C12_Witness ==
    /\ call.fn = "closestIntersection" /\ call.returned
    /\ \E j, k \in 1..Len(call.objects) :
         /\ j < k
         /\ call.ret.object = j
         /\ NumLt(call.ret.t, Infinity)
         /\ Distance(call, k) = call.ret.t

\* C13 (as claimed): the normal that Material.scatter perturbs faces the side
\* of the surface the incoming ray came from: in every activation of scatter
\* its inner product with the incoming ray's direction is not positive.
C13_HitNormalFacesIncoming ==
    \A k \in 1..Len(stack) :
        stack[k].fn = "scatter" =>
            inner(HitNormal(stack[k]), stack[k].ray.direction) <= 0

=============================================================================
